---- MODULE Spec2Model ----
(***************************************************************************)
(* AMQPClient (src/src/amqp-socket-client.mjs): the socket transport of an *)
(* AMQP 0-9-1 client.  The model covers the connect/send/closeSocket       *)
(* lifecycle and the onread callback that cuts the byte stream of a socket *)
(* into frames (7-byte header, payload, end marker).                       *)
(*                                                                         *)
(* Buffers are sequences of cells; offset i of the code is index i + 1.    *)
(* A cell holds a byte 0..255 or Uninit (Buffer.allocUnsafe memory that    *)
(* was never written).  One loop iteration of the onread callback is one   *)
(* step; while a callback runs (pc = "loop") nothing else runs, as on the  *)
(* single JavaScript thread.                                               *)
(***************************************************************************)
EXTENDS Integers, Naturals, Sequences, FiniteSets, TLC

VARIABLES
  socket,         \* this.socket: 0 is null, k > 0 the socket of the k-th connect()
  connectPromise, \* this.connectPromise: 0 is undefined, k the continuation pair of future k
  connectCalls,   \* number of connect() calls made
  connState,      \* [socket id -> state of the future returned by that connect()]
  connError,      \* [socket id -> the value the future was rejected with, or NoValue]
  sockState,      \* [socket id -> "none" | "connecting" | "open" | "destroyed"]
  ended,          \* [socket id -> socket.end() was called]
  writeQueue,     \* [socket id -> writes accepted by socket.write, not yet on the wire]
  wire,           \* [socket id -> writes handed to the transport, in order]
  sends,          \* number of send() calls made by callers
  sendState,      \* [send id -> state of the future returned by that send()]
  sendError,      \* [send id -> the value the future was rejected with, or NoValue]
  sessionErrors,  \* errors delivered to the protocol engine's session error channel
  firstSignal,    \* [socket id -> what reached its future first: "none", "handshake"
                  \*  or the message of the 'error' event] (history)
  errors,         \* number of 'error' events emitted so far
  stream,         \* the frames the broker sends on a socket (input)
  fed,            \* [socket id -> bytes of the stream delivered to onread so far]
  dispatched,     \* [socket id -> byte sequences passed to parseFrames, in order]
  framePos,       \* [socket id -> closure variable framePos]
  frameSize,      \* [socket id -> closure variable frameSize]
  frameBuffer,    \* [socket id -> scratch buffer cells]
  buf,            \* [socket id -> onread.buffer cells]
  pc,             \* "idle" | "loop" | "thrown"
  cur,            \* socket whose onread callback is running
  bufPos,         \* local bufPos of the running callback
  bytesWritten,   \* argument bytesWritten of the running callback
  lastOp          \* name of the last operation or loop step taken

vars == <<socket, connectPromise, connectCalls, connState, connError, sockState,
          ended, writeQueue, wire, sends, sendState, sendError, sessionErrors,
          firstSignal, errors, stream, fed, dispatched, framePos, frameSize,
          frameBuffer, buf, pc, cur, bufPos, bytesWritten, lastOp>>

lifeVars == <<socket, connectPromise, connectCalls, connState, connError, sockState,
              ended, writeQueue, wire, sends, sendState, sendError, sessionErrors,
              firstSignal, errors>>

readVars == <<fed, dispatched, framePos, frameSize, frameBuffer, buf, cur, bufPos,
              bytesWritten>>

----------------------------------------------------------------------------
\* Bounds of the model.

\* connect() calls per client
MaxConnects == 2
\* send() calls by callers
MaxSends == 2
\* 'error' events
MaxErrors == 2
\* frames in a broker stream
MaxFrames == 2
\* payload bytes of a frame
MaxPayload == 1
\* cells of the scratch buffer (16384 in the code, scaled)
FrameBufferCap == 12
\* cells of the onread buffer (128 * 1024 in the code, scaled)
ReadBufferCap == 17
\* parseFrames calls followed per connection where the code sets no limit
MaxDispatch == 3

\* Program constants.
HeaderLen == 7
FrameOverhead == 8

Sockets == 1..MaxConnects
SendIds == 1..MaxSends

Uninit == -1
\* values a never-written cell is observed to hold
UninitBytes == {0, 255}
\* settlement values of a future: what it was rejected with
Value(name, message) == [name |-> name, message |-> message]
NoValue == Value("none", "")

Preamble == <<65, 77, 81, 80, 0, 0, 9, 1>>
NotConnected == Value("string", "Socket not connected")
ErrMsgs == {"ECONNRESET", "EPIPE"}
SendPayloads == {<<1, 2, 3>>}

Min(a, b) == IF a < b THEN a ELSE b

----------------------------------------------------------------------------
\* Frames and streams (the input).

FrameTypes == {1}
PayloadSeeds == {10}

\* [type:1][channel:2][payload-length:4 big-endian][payload][end-marker:1]
Frame(t, len, seed) ==
  <<t, 0, 1, 0, 0, 0, len>> \o [j \in 1..len |-> seed + j] \o <<206>>

Frames == {Frame(t, len, seed) : t \in FrameTypes, len \in 0..MaxPayload, seed \in PayloadSeeds}

Streams == UNION {[1..n -> Frames] : n \in 1..MaxFrames}

RECURSIVE Flatten(_)
Flatten(fs) == IF fs = <<>> THEN <<>> ELSE Head(fs) \o Flatten(Tail(fs))

StreamBytes == Flatten(stream)

\* number of frames of the stream whose last byte is among the first n bytes
RECURSIVE CompletedIn(_, _)
CompletedIn(fs, n) ==
  IF fs = <<>> \/ Len(Head(fs)) > n THEN 0
  ELSE 1 + CompletedIn(Tail(fs), n - Len(Head(fs)))

----------------------------------------------------------------------------
\* Buffer primitives of the runtime, as the code uses them.

\* CopyCount gone wrong: the room left in the target does not limit the copy
CopyCountNoRoom(targetLen, targetStart, sourceLen, sourceStart, sourceEnd) ==
  IF sourceStart >= sourceEnd THEN 0
  ELSE Min(sourceEnd - sourceStart, sourceLen - sourceStart)

\* Buffer.prototype.copy: the number of bytes moved is clamped to the source
\* range, to the room left in the target and to the source length.
CopyCount(targetLen, targetStart, sourceLen, sourceStart, sourceEnd) ==
  IF targetStart >= targetLen \/ sourceStart >= sourceEnd THEN 0
  ELSE Min(sourceEnd - sourceStart, Min(targetLen - targetStart, sourceLen - sourceStart))

\* target with n cells of source, from offset sourceStart, written at targetStart
CopyInto(target, targetStart, source, sourceStart, n) ==
  [i \in 1..Len(target) |->
     IF i > targetStart /\ i <= targetStart + n
     THEN source[sourceStart + (i - targetStart)]
     ELSE target[i]]

\* Buffer.prototype.readInt32BE: signed 32-bit big-endian at offset off
ReadInt32BE(b, off) ==
  LET hi == IF b[off + 1] >= 128 THEN b[off + 1] - 256 ELSE b[off + 1]
  IN  hi * 16777216 + b[off + 2] * 65536 + b[off + 3] * 256 + b[off + 4]

\* View gone wrong: the view starts at the start of the buffer
ViewAtStart(b, off, len) == [i \in 1..len |-> b[i]]

\* new AMQPView(buffer, offset, length): the bytes the view exposes
View(b, off, len) == [i \in 1..len |-> b[off + i]]

\* cells with every never-written cell among offsets lo..hi-1 given its observed value
Observe(b, lo, hi, fill) ==
  [i \in 1..Len(b) |-> IF i > lo /\ i <= hi /\ b[i] = Uninit THEN fill[i] ELSE b[i]]

----------------------------------------------------------------------------
\* Promise semantics: resolve and reject act on a pending promise only.

Settle(state, outcome) == IF state = "pending" THEN outcome ELSE state

SettleValue(state, old, value) == IF state = "pending" THEN value ELSE old

\* new AMQPError(err.message, this)
AMQPError(msg) == Value("AMQPError", msg)

----------------------------------------------------------------------------
\* The state after construction (the constructor sets this.socket = null; the
\* closure variables of connectSocket start at 0 and its buffers unwritten).

InitClient ==
  /\ socket = 0
  /\ connectPromise = 0
  /\ connectCalls = 0
  /\ connState = [k \in Sockets |-> "none"]
  /\ connError = [k \in Sockets |-> NoValue]
  /\ sockState = [k \in Sockets |-> "none"]
  /\ ended = [k \in Sockets |-> FALSE]
  /\ writeQueue = [k \in Sockets |-> <<>>]
  /\ wire = [k \in Sockets |-> <<>>]
  /\ sends = 0
  /\ sendState = [i \in SendIds |-> "none"]
  /\ sendError = [i \in SendIds |-> NoValue]
  /\ sessionErrors = <<>>
  /\ firstSignal = [k \in Sockets |-> "none"]
  /\ errors = 0
  /\ fed = [k \in Sockets |-> 0]
  /\ dispatched = [k \in Sockets |-> <<>>]
  /\ framePos = [k \in Sockets |-> 0]
  /\ frameSize = [k \in Sockets |-> 0]
  /\ frameBuffer = [k \in Sockets |-> [i \in 1..FrameBufferCap |-> Uninit]]
  /\ buf = [k \in Sockets |-> [i \in 1..ReadBufferCap |-> Uninit]]
  /\ pc = "idle"
  /\ cur = 0
  /\ bufPos = 0
  /\ bytesWritten = 0
  /\ lastOp = "new"

----------------------------------------------------------------------------
\* The onread callback (lines 61-109), one loop iteration per step.

\* the transport wrote n bytes at the start of onread.buffer and calls the callback
OnRead(k, n) ==
  /\ pc = "idle"
  /\ sockState[k] = "open"
  /\ n \in 1..Min(ReadBufferCap, Len(StreamBytes) - fed[k])
  /\ buf' = [buf EXCEPT ![k] =
               [i \in 1..ReadBufferCap |-> IF i <= n THEN StreamBytes[fed[k] + i] ELSE @[i]]]
  /\ fed' = [fed EXCEPT ![k] = @ + n]
  /\ cur' = k
  /\ bytesWritten' = n
  /\ bufPos' = 0
  /\ pc' = "loop"
  /\ lastOp' = "onread"
  /\ UNCHANGED <<lifeVars, stream, dispatched, framePos, frameSize, frameBuffer>>

\* while (bufPos < bytesWritten) is false: return true
LoopExit ==
  /\ pc = "loop"
  /\ bufPos >= bytesWritten
  /\ pc' = "idle"
  /\ bufPos' = 0
  /\ bytesWritten' = 0
  /\ lastOp' = "return"
  /\ UNCHANGED <<lifeVars, stream, fed, dispatched, framePos, frameSize, frameBuffer,
                 buf, cur>>

\* an exception leaves the callback: the state stays as the throw found it
Throw(what) ==
  /\ pc' = "thrown"
  /\ lastOp' = what

\* lines 68-75: frameSize === 0 and framePos !== 0
PartialHeader ==
  /\ pc = "loop"
  /\ bufPos < bytesWritten
  /\ frameSize[cur] = 0
  /\ framePos[cur] # 0
  /\ LET k == cur
         copied == CopyCount(FrameBufferCap, framePos[k], ReadBufferCap, bufPos,
                             bufPos + HeaderLen - framePos[k])
     IN  IF copied = 0
         THEN /\ Throw("throwPartialHeader")
              /\ UNCHANGED <<readVars>>
         ELSE \E fill \in [{i \in (bufPos + 1)..(bufPos + copied) : buf[k][i] = Uninit}
                             -> UninitBytes] :
                LET seen == Observe(buf[k], bufPos, bufPos + copied, fill)
                    fb == CopyInto(frameBuffer[k], framePos[k], seen, bufPos, copied)
                IN  /\ buf' = [buf EXCEPT ![k] = seen]
                    /\ frameBuffer' = [frameBuffer EXCEPT ![k] = fb]
                    /\ framePos' = [framePos EXCEPT ![k] = @ + copied]
                    /\ bufPos' = bufPos + copied
                    /\ frameSize' = [frameSize EXCEPT ![k] = ReadInt32BE(fb, 3) + FrameOverhead]
                    /\ pc' = "loop"
                    /\ lastOp' = "partialHeader"
                    /\ UNCHANGED <<fed, dispatched, cur, bytesWritten>>
  /\ UNCHANGED <<lifeVars, stream>>

\* lines 77-82: fewer than 7 bytes left in the chunk at a fresh frame boundary
SplitHeader ==
  /\ pc = "loop"
  /\ bufPos < bytesWritten
  /\ frameSize[cur] = 0
  /\ framePos[cur] = 0
  /\ bufPos + 3 + 4 > bytesWritten
  /\ LET k == cur
         copied == CopyCount(FrameBufferCap, framePos[k], ReadBufferCap, bufPos, bytesWritten)
     IN  IF copied = 0
         THEN /\ Throw("throwSplitHeader")
              /\ UNCHANGED <<readVars>>
         ELSE /\ frameBuffer' = [frameBuffer EXCEPT ![k] =
                                   CopyInto(@, framePos[k], buf[k], bufPos, copied)]
              /\ framePos' = [framePos EXCEPT ![k] = @ + copied]
              /\ pc' = "idle"
              /\ bufPos' = 0
              /\ bytesWritten' = 0
              /\ lastOp' = "splitHeader"
              /\ UNCHANGED <<fed, dispatched, frameSize, buf, cur>>
  /\ UNCHANGED <<lifeVars, stream>>

\* Reset gone wrong: the state is left as the frame set it
ResetOff(f, k) == f

\* lines 91 and 105: framePos = frameSize = 0 for the detector of socket k
Reset(f, k) == [f EXCEPT ![k] = 0]

\* lines 84-93: the header is in the chunk and so is the whole frame
ZeroCopy ==
  /\ pc = "loop"
  /\ bufPos < bytesWritten
  /\ frameSize[cur] = 0
  /\ framePos[cur] = 0
  /\ bufPos + 3 + 4 <= bytesWritten
  /\ LET k == cur
         size == ReadInt32BE(buf[k], bufPos + 3) + FrameOverhead
     IN  /\ bytesWritten - bufPos >= size
         /\ IF size < 0
            THEN \* new AMQPView with a negative length is a RangeError
                 /\ Throw("throwView")
                 /\ frameSize' = [frameSize EXCEPT ![k] = size]
                 /\ UNCHANGED <<fed, dispatched, framePos, frameBuffer, buf, cur, bufPos,
                                bytesWritten>>
            ELSE /\ dispatched' = [dispatched EXCEPT ![k] = Append(@, View(buf[k], bufPos, size))]
                 /\ bufPos' = bufPos + size
                 /\ framePos' = Reset(framePos, k)
                 /\ frameSize' = Reset([frameSize EXCEPT ![k] = size], k)
                 /\ pc' = "loop"
                 /\ lastOp' = "zeroCopy"
                 /\ UNCHANGED <<fed, frameBuffer, buf, cur, bytesWritten>>
  /\ UNCHANGED <<lifeVars, stream>>

\* lines 84-87 and 96-106: copy into the scratch buffer, dispatch when complete
SlowPath ==
  /\ pc = "loop"
  /\ bufPos < bytesWritten
  /\ \/ frameSize[cur] # 0
     \/ /\ framePos[cur] = 0
        /\ bufPos + 3 + 4 <= bytesWritten
        /\ bytesWritten - bufPos < ReadInt32BE(buf[cur], bufPos + 3) + FrameOverhead
  /\ LET k == cur
         size == IF frameSize[k] = 0
                 THEN ReadInt32BE(buf[k], bufPos + 3) + FrameOverhead
                 ELSE frameSize[k]
         leftOfFrame == size - framePos[k]
         copyBytes == Min(leftOfFrame, bytesWritten - bufPos)
         \* a negative sourceEnd is a RangeError of copy, no bytes moved and the
         \* check of line 99 not reached
         copied == IF bufPos + copyBytes < 0 THEN 0
                   ELSE CopyCount(FrameBufferCap, framePos[k], ReadBufferCap, bufPos,
                                  bufPos + copyBytes)
         fb == CopyInto(frameBuffer[k], framePos[k], buf[k], bufPos, copied)
     IN  IF copied = 0
         THEN /\ Throw(IF bufPos + copyBytes < 0 THEN "throwRange" ELSE "throwSlowPath")
              /\ frameSize' = [frameSize EXCEPT ![k] = size]
              /\ UNCHANGED <<fed, dispatched, framePos, frameBuffer, buf, cur, bufPos,
                             bytesWritten>>
         ELSE /\ frameBuffer' = [frameBuffer EXCEPT ![k] = fb]
              /\ bufPos' = bufPos + copied
              /\ pc' = "loop"
              /\ IF framePos[k] + copied = size
                 THEN /\ dispatched' = [dispatched EXCEPT ![k] = Append(@, View(fb, 0, size))]
                      /\ frameSize' = Reset([frameSize EXCEPT ![k] = size], k)
                      /\ framePos' = Reset([framePos EXCEPT ![k] = @ + copied], k)
                      /\ lastOp' = "slowDispatch"
                 ELSE /\ frameSize' = [frameSize EXCEPT ![k] = size]
                      /\ framePos' = [framePos EXCEPT ![k] = @ + copied]
                      /\ lastOp' = "slowCopy"
                      /\ UNCHANGED dispatched
              /\ UNCHANGED <<fed, buf, cur, bytesWritten>>
  /\ UNCHANGED <<lifeVars, stream>>

ReadStep == LoopExit \/ PartialHeader \/ SplitHeader \/ ZeroCopy \/ SlowPath

----------------------------------------------------------------------------
\* connect, send, closeSocket and the socket's events.

\* net.Socket accepts a write until end() was called or the socket is destroyed;
\* a write made while connecting waits in the queue
Writable(k) == sockState[k] \in {"connecting", "open"} /\ ~ended[k]

\* SocketWrite gone wrong: the write overtakes the writes already queued
SocketWriteFront(queue, write) == <<write>> \o queue

\* socket.write(bytes, undefined, callback): the write joins the socket's queue
SocketWrite(queue, write) == Append(queue, write)

\* ErrorListener gone wrong: the listener overwrites a settled outcome
ErrorListenerOverwrite(state, outcome) == outcome

\* ErrorListener gone wrong: the listener does not reject
ErrorListenerOff(state, outcome) == state

\* the 'error' listener of line 42: reject(new AMQPError(err.message, this))
ErrorListener(state, outcome) == Settle(state, outcome)

\* lines 35-45
Connect ==
  /\ pc = "idle"
  /\ connectCalls < MaxConnects
  /\ LET k == connectCalls + 1
     IN  /\ connectCalls' = k
         /\ sockState' = [sockState EXCEPT ![k] = "connecting"]
         /\ socket' = k
         /\ connState' = [connState EXCEPT ![k] = "pending"]
         /\ connectPromise' = k
  /\ lastOp' = "connect"
  /\ UNCHANGED <<connError, ended, writeQueue, wire, sends, sendState, sendError,
                 sessionErrors, firstSignal, errors, stream, readVars, pc>>

\* lines 112-115: the connect listener runs this.send(preamble), which writes to
\* this.socket; the future of that send is dropped
Established(k) ==
  /\ pc = "idle"
  /\ sockState[k] = "connecting"
  /\ sockState' = [sockState EXCEPT ![k] = "open"]
  /\ writeQueue' = IF socket # 0 /\ Writable(socket)
                   THEN [writeQueue EXCEPT ![socket] =
                           SocketWrite(@, [id |-> 0, bytes |-> Preamble])]
                   ELSE writeQueue
  /\ lastOp' = "established"
  /\ UNCHANGED <<socket, connectPromise, connectCalls, connState, connError, ended, wire,
                 sends, sendState, sendError, sessionErrors, firstSignal, errors, stream,
                 readVars, pc>>

\* SendNoSocket gone wrong: the condition is thrown instead of rejected
SendNoSocketThrows(id) ==
  /\ pc' = "thrown"
  /\ UNCHANGED <<sendState, sendError, writeQueue>>

\* lines 127-128: no socket, reject("Socket not connected")
SendNoSocket(id) ==
  /\ sendState' = [sendState EXCEPT ![id] = "rejected"]
  /\ sendError' = [sendError EXCEPT ![id] = NotConnected]
  /\ UNCHANGED <<writeQueue, pc>>

\* lines 123-130
Send(bytes) ==
  /\ pc = "idle"
  /\ sends < MaxSends
  /\ LET id == sends + 1
     IN  /\ sends' = id
         /\ IF socket = 0
            THEN SendNoSocket(id)
            ELSE IF Writable(socket)
            THEN /\ writeQueue' = [writeQueue EXCEPT ![socket] =
                                     SocketWrite(@, [id |-> id, bytes |-> bytes])]
                 /\ sendState' = [sendState EXCEPT ![id] = "pending"]
                 /\ UNCHANGED <<sendError, pc>>
            ELSE \* the write callback gets the stream's error
                 /\ sendState' = [sendState EXCEPT ![id] = "rejected"]
                 /\ sendError' = [sendError EXCEPT ![id] = Value("Error", "write after end")]
                 /\ UNCHANGED <<writeQueue, pc>>
  /\ lastOp' = "send"
  /\ UNCHANGED <<socket, connectPromise, connectCalls, connState, connError, sockState,
                 ended, wire, sessionErrors, firstSignal, errors, stream, readVars>>

\* line 126: the transport takes the oldest queued write and calls its callback
\* without an error
Flush(k) ==
  /\ pc = "idle"
  /\ sockState[k] = "open"
  /\ writeQueue[k] # <<>>
  /\ LET w == Head(writeQueue[k])
     IN  /\ wire' = [wire EXCEPT ![k] = Append(@, w)]
         /\ writeQueue' = [writeQueue EXCEPT ![k] = Tail(@)]
         /\ sendState' = IF w.id = 0 THEN sendState
                         ELSE [sendState EXCEPT ![w.id] = Settle(@, "resolved")]
  /\ lastOp' = "flush"
  /\ UNCHANGED <<socket, connectPromise, connectCalls, connState, connError, sockState,
                 ended, sends, sendError, sessionErrors, firstSignal, errors, stream,
                 readVars, pc>>

\* the ids of the caller's sends in a sequence of writes
RECURSIVE WriteIds(_)
WriteIds(ws) ==
  IF ws = <<>> THEN {}
  ELSE (IF Head(ws).id = 0 THEN {} ELSE {Head(ws).id}) \cup WriteIds(Tail(ws))

\* line 42, line 126: the socket emits 'error'; the listener rejects the connect
\* future, the socket is destroyed and every queued write's callback gets the error
SocketError(k, msg) ==
  /\ pc = "idle"
  /\ sockState[k] # "none"
  /\ errors < MaxErrors
  /\ errors' = errors + 1
  /\ connState' = [connState EXCEPT ![k] = ErrorListener(@, "rejected")]
  /\ connError' = [connError EXCEPT ![k] = SettleValue(connState[k], @, AMQPError(msg))]
  /\ firstSignal' = [firstSignal EXCEPT ![k] = IF @ = "none" THEN msg ELSE @]
  /\ sockState' = [sockState EXCEPT ![k] = "destroyed"]
  /\ LET failed == WriteIds(writeQueue[k])
     IN  /\ sendState' = [i \in SendIds |->
                            IF i \in failed THEN Settle(sendState[i], "rejected")
                            ELSE sendState[i]]
         /\ sendError' = [i \in SendIds |->
                            IF i \in failed
                            THEN SettleValue(sendState[i], sendError[i], Value("Error", msg))
                            ELSE sendError[i]]
  /\ writeQueue' = [writeQueue EXCEPT ![k] = <<>>]
  /\ lastOp' = "error"
  /\ UNCHANGED <<socket, connectPromise, connectCalls, ended, wire, sends, sessionErrors,
                 stream, readVars, pc>>

\* the protocol engine signals that the handshake completed: it calls the resolve
\* continuation stored in this.connectPromise
HandshakeComplete ==
  /\ pc = "idle"
  /\ connectPromise # 0
  /\ connState' = [connState EXCEPT ![connectPromise] = Settle(@, "resolved")]
  /\ firstSignal' = [firstSignal EXCEPT ![connectPromise] =
                       IF @ = "none" THEN "handshake" ELSE @]
  /\ lastOp' = "handshake"
  /\ UNCHANGED <<socket, connectPromise, connectCalls, connError, sockState, ended,
                 writeQueue, wire, sends, sendState, sendError, sessionErrors, errors,
                 stream, readVars, pc>>

\* SocketEnd gone wrong: the socket is destroyed, its queued writes dropped
SocketDestroy(k) ==
  /\ ended' = [ended EXCEPT ![k] = TRUE]
  /\ sockState' = [sockState EXCEPT ![k] = "destroyed"]
  /\ writeQueue' = [writeQueue EXCEPT ![k] = <<>>]

\* socket.end(): no write is accepted any more; queued writes and reads go on
SocketEnd(k) ==
  /\ ended' = [ended EXCEPT ![k] = TRUE]
  /\ UNCHANGED <<sockState, writeQueue>>

\* CloseSocket gone wrong: the handle is cleared when the socket is closed
CloseSocketNulls ==
  /\ pc = "idle"
  /\ IF socket # 0 THEN SocketEnd(socket) ELSE UNCHANGED <<ended, sockState, writeQueue>>
  /\ socket' = 0
  /\ lastOp' = "closeSocket"
  /\ UNCHANGED <<connectPromise, connectCalls, connState, connError, wire, sends,
                 sendState, sendError, sessionErrors, firstSignal, errors, stream, readVars,
                 pc>>

\* lines 135-137
CloseSocket ==
  /\ pc = "idle"
  /\ IF socket # 0 THEN SocketEnd(socket) ELSE UNCHANGED <<ended, sockState, writeQueue>>
  /\ lastOp' = "closeSocket"
  /\ UNCHANGED <<socket, connectPromise, connectCalls, connState, connError, wire, sends,
                 sendState, sendError, sessionErrors, firstSignal, errors, stream, readVars,
                 pc>>

----------------------------------------------------------------------------
\* The client's operations and the socket's events, without incoming data.

Init ==
  /\ InitClient
  /\ stream = <<Frame(1, 0, 10)>>

Next ==
  \/ Connect
  \/ \E k \in Sockets : Established(k)
  \/ \E b \in SendPayloads : Send(b)
  \/ \E k \in Sockets : Flush(k)
  \/ \E k \in Sockets : \E m \in ErrMsgs : SocketError(k, m)
  \/ HandshakeComplete
  \/ CloseSocket

Spec == Init /\ [][Next]_vars

\* One connection with its writes, its reads and closeSocket.
IOStreams == {<<Frame(1, 0, 10)>>}

InitIO ==
  /\ InitClient
  /\ stream \in IOStreams

ConnectOnce == connectCalls = 0 /\ Connect

NextIO ==
  \/ ConnectOnce
  \/ \E k \in Sockets : Established(k)
  \/ \E b \in SendPayloads : Send(b)
  \/ \E k \in Sockets : Flush(k)
  \/ \E k \in Sockets : \E m \in ErrMsgs : SocketError(k, m)
  \/ CloseSocket
  \/ \E k \in Sockets : \E n \in 1..ReadBufferCap : OnRead(k, n)
  \/ ReadStep

SpecIO == InitIO /\ [][NextIO]_vars

\* One socket and its reads: every stream, every chunking.
InitFrames ==
  /\ InitClient
  /\ stream \in Streams

NextFrames ==
  \/ ConnectOnce
  \/ \E k \in Sockets : Established(k)
  \/ \E k \in Sockets : \E n \in 1..ReadBufferCap : OnRead(k, n)
  \/ ReadStep

SpecFrames == InitFrames /\ [][NextFrames]_vars

\* Two connections, each with reads, and the operations that could touch
\* this.socket; the chunks are cut at the sizes of SockChunks.
SockChunks == {3, 5, 8}

NextSock ==
  \/ Connect
  \/ \E k \in Sockets : Established(k)
  \/ \E b \in SendPayloads : Send(b)
  \/ \E k \in Sockets : \E m \in ErrMsgs : SocketError(k, m)
  \/ CloseSocket
  \/ \E k \in Sockets : \E n \in SockChunks : OnRead(k, n)
  \/ ReadStep

SpecSock == Init /\ [][NextSock]_vars

\* The same frame delivered to two connections: whole in one chunk to the first,
\* cut into smaller chunks in every way to the second.
InitEquiv ==
  /\ InitClient
  /\ stream \in {<<f>> : f \in Frames}

NextEquiv ==
  \/ Connect
  \/ \E k \in Sockets : Established(k)
  \/ OnRead(1, Len(StreamBytes))
  \/ \E n \in 1..(Len(StreamBytes) - 1) : OnRead(2, n)
  \/ ReadStep

SpecEquiv == InitEquiv /\ [][NextEquiv]_vars

\* A valid frame whose 4 payload bytes read as the 32-bit integer -8.
SpinFrame == <<1, 0, 1, 0, 0, 0, 4>> \o <<255, 255, 255, 248>> \o <<206>>

InitSpin ==
  /\ InitClient
  /\ stream = <<SpinFrame>>

\* The reads of one connection; the calls of parseFrames are followed up to
\* MaxDispatch per connection.
NextSpin ==
  \/ ConnectOnce
  \/ \E k \in Sockets : Established(k)
  \/ \E k \in Sockets : \E n \in 1..ReadBufferCap : OnRead(k, n)
  \/ ReadStep /\ \A k \in Sockets : Len(dispatched'[k]) <= MaxDispatch

SpecSpin == InitSpin /\ [][NextSpin]_vars

\* A frame two bytes longer than the scratch buffer, alone or behind a short frame.
BigFrame == Frame(1, FrameBufferCap - FrameOverhead + 2, 10)

InitBig ==
  /\ InitClient
  /\ stream \in {<<BigFrame>>, <<Frame(1, 0, 10), BigFrame>>}

SpecBig == InitBig /\ [][NextFrames]_vars

----------------------------------------------------------------------------
\* Properties.

AllWrites(k) == wire[k] \o writeQueue[k]

RECURSIVE CallerIds(_)
CallerIds(ws) ==
  IF ws = <<>> THEN <<>>
  ELSE (IF Head(ws).id = 0 THEN <<>> ELSE <<Head(ws).id>>) \o CallerIds(Tail(ws))

\* number of bytes of the frame in progress among the first n bytes of the stream
RECURSIVE InFrame(_, _)
InFrame(fs, n) ==
  IF fs = <<>> \/ Len(Head(fs)) > n THEN n
  ELSE InFrame(Tail(fs), n - Len(Head(fs)))

Increasing(ids) == \A i \in 1..Len(ids) : \A j \in 1..Len(ids) : i < j => ids[i] < ids[j]

\* C1: once every chunk of a valid stream of N frames was fed to the onread
\* callback, parseFrames was called exactly N times, the i-th call with the bytes
\* of the i-th frame, whatever the chunking.
C1_ReassemblyCorrect ==
  \A k \in Sockets :
    (pc = "idle" /\ fed[k] = Len(StreamBytes)) => dispatched[k] = stream

\* C2: at the return of every read callback the number of frames dispatched equals
\* the number of frames of the stream whose last byte has been received.
C2_DispatchPrompt ==
  \A k \in Sockets :
    pc = "idle" => Len(dispatched[k]) = CompletedIn(stream, fed[k])

\* C3: a settled connect future never changes its outcome or its value, whatever
\* error events and handshake signals follow.
C3_SingleResolution ==
  [][\A k \in Sockets :
       connState[k] \in {"resolved", "rejected"} =>
         /\ connState'[k] = connState[k]
         /\ connError'[k] = connError[k]]_vars

\* C3 witness: a second 'error' event on the one socket whose future the first
\* error rejected.
C3_Witness ==
  /\ connectCalls = 1
  /\ errors = 2
  /\ lastOp = "error"
  /\ connState[1] = "rejected"

\* C4: a future whose socket emitted 'error' before any handshake signal is rejected
\* with an AMQPError carrying that error's message, and stays so; a future for
\* which the handshake was signalled first is resolved, and stays so.
C4_ConnectOutcome ==
  \A k \in Sockets :
    /\ firstSignal[k] \in ErrMsgs =>
         connState[k] = "rejected" /\ connError[k] = AMQPError(firstSignal[k])
    /\ firstSignal[k] = "handshake" =>
         connState[k] = "resolved" /\ connError[k] = NoValue

\* C4 witness: the handshake is signalled for a future that an earlier socket error
\* already rejected.
C4_Witness ==
  /\ connectPromise = 1
  /\ firstSignal[1] \in ErrMsgs
  /\ lastOp = "handshake"

\* C5: an 'error' event on a socket whose connect future is already resolved is
\* delivered to the protocol engine's session error channel.
C5_LateErrorRouted ==
  [][\A k \in Sockets : \A m \in ErrMsgs :
       (SocketError(k, m) /\ connState[k] = "resolved") =>
         Len(sessionErrors') > Len(sessionErrors)]_vars

\* C6: send() with no socket rejects its future with "Socket not connected", throws
\* nothing, writes nothing and leaves the connection state as it was; send() on a
\* connected socket is accepted into the socket's queue.
C6_SendBeforeConnect ==
  [][(sends' = sends + 1) =>
       IF socket = 0
       THEN /\ sendState'[sends'] = "rejected"
            /\ sendError'[sends'] = NotConnected
            /\ pc' = "idle"
            /\ socket' = 0
            /\ UNCHANGED <<connectPromise, connectCalls, connState, sockState, ended,
                           writeQueue, wire>>
       ELSE Writable(socket) =>
              /\ sendState'[sends'] = "pending"
              /\ \E b \in SendPayloads :
                   writeQueue'[socket] = Append(writeQueue[socket],
                                                [id |-> sends', bytes |-> b])]_vars

\* C6 witness: the first send() found no socket and was rejected, the second one,
\* after connect(), was written.
C6_Witness ==
  /\ sendState[1] = "rejected"
  /\ sendError[1] = NotConnected
  /\ sendState[2] = "resolved"

\* C7: on every socket the caller's writes are in the order of the send() calls,
\* and a send future is pending while its write is queued, resolved only when its
\* own write is on the wire, rejected only when its write never gets there.
C7_WriteOrder ==
  /\ \A k \in Sockets : Increasing(CallerIds(AllWrites(k)))
  /\ \A i \in SendIds :
       /\ sendState[i] = "none" <=> i > sends
       /\ sendState[i] = "pending" <=> \E k \in Sockets : i \in WriteIds(writeQueue[k])
       /\ sendState[i] = "resolved" <=> \E k \in Sockets : i \in WriteIds(wire[k])
       /\ sendState[i] = "rejected" =>
            \A k \in Sockets : i \notin WriteIds(AllWrites(k))

\* C7 witness: the first send is on the wire, a frame was dispatched, and the
\* second send is still queued behind it.
C7_Witness ==
  /\ sendState[1] = "resolved"
  /\ sendState[2] = "pending"
  /\ dispatched[1] # <<>>
  /\ CallerIds(AllWrites(1)) = <<1, 2>>

\* C8: the first bytes written to a socket are the preamble: no bytes of a caller's
\* send() reach the wire ahead of it.
C8_PreambleFirst ==
  \A k \in Sockets :
    wire[k] # <<>> => wire[k][1] = [id |-> 0, bytes |-> Preamble]

\* C9: closeSocket() changes nothing but the end of the write side: the queued
\* writes, the reassembly state and the dispatched frames stay, no future is made,
\* and with no socket nothing changes; afterwards a queued write can still be
\* flushed and an arriving chunk is still taken by the read callback.
C9_CloseOnlyEndsWrites ==
  /\ [][lastOp' = "closeSocket" =>
          /\ UNCHANGED <<socket, sockState, writeQueue, wire, readVars, sends, sendState,
                         connState, connectPromise, pc>>
          /\ socket = 0 => ended' = ended
          /\ socket # 0 => ended'[socket]]_vars
  /\ [](\A k \in Sockets :
          (ended[k] /\ sockState[k] = "open" /\ pc = "idle") =>
            /\ writeQueue[k] # <<>> => ENABLED Flush(k)
            /\ fed[k] < Len(StreamBytes) => ENABLED OnRead(k, 1))

\* C9 witness: closeSocket() was called with the preamble still queued; a chunk that
\* arrived afterwards had its frame dispatched, and the write still waits.
C9_Witness ==
  /\ ended[1]
  /\ sockState[1] = "open"
  /\ lastOp = "zeroCopy"
  /\ writeQueue[1] # <<>>
  /\ dispatched[1] = stream

\* C10: at most one connect future is pending at any time.
C10_OnePendingConnect ==
  Cardinality({k \in Sockets : connState[k] = "pending"}) <= 1

\* C11: this.socket is null exactly until the first connect(); each connect() puts
\* a socket there that was never there before, and no other step (send, closeSocket,
\* a read callback, a socket error, the connection being established) changes it.
C11_SocketHandle ==
  /\ [](socket # 0 <=> connectCalls > 0)
  /\ [][IF connectCalls' # connectCalls
          THEN socket' # socket /\ socket' # 0 /\ sockState[socket'] = "none"
          ELSE socket' = socket]_vars

\* C11 witness: after the second connect() the first socket failed, the second one
\* delivered a frame and was closed, a send was made, and the handle is still the
\* second socket.
C11_Witness ==
  /\ socket = 2
  /\ sockState[1] = "destroyed"
  /\ dispatched[2] # <<>>
  /\ ended[2]
  /\ sends > 0

\* C12: between read callbacks, a decoded frameSize bounds framePos from above, and
\* with no frameSize decoded framePos is below 7 and counts the bytes of the frame
\* in progress (its header bytes) received so far.
C12_ReassemblyState ==
  \A k \in Sockets :
    pc = "idle" =>
      /\ frameSize[k] > 0 => (0 <= framePos[k] /\ framePos[k] <= frameSize[k])
      /\ frameSize[k] = 0 =>
           (framePos[k] \in 0..(HeaderLen - 1) /\ framePos[k] = InFrame(stream, fed[k]))

\* C13: every step that hands a frame to parseFrames, through the zero-copy path or
\* through the scratch buffer, leaves framePos = 0 and frameSize = 0.
C13_ResetAfterDispatch ==
  [][\A k \in Sockets :
       dispatched'[k] # dispatched[k] => (framePos'[k] = 0 /\ frameSize'[k] = 0)]_vars

\* C13 witness: the first frame was just dispatched from the scratch buffer and the
\* chunk holds more bytes, which start a new header.
C13_Witness ==
  /\ lastOp = "slowDispatch"
  /\ pc = "loop"
  /\ bufPos < bytesWritten
  /\ dispatched[cur] = <<stream[1]>>
  /\ framePos[cur] = 0
  /\ frameSize[cur] = 0

\* C14: when a header is partly buffered (frameSize = 0, 0 < framePos < 7) and the
\* chunk brings too few bytes to complete it, the callback copies just the bytes of
\* the chunk behind the buffered ones, adds their number to framePos, leaves
\* frameSize at 0 and dispatches nothing.
C14_HeaderContinuation ==
  [][(/\ pc = "loop"
      /\ bufPos = 0
      /\ frameSize[cur] = 0
      /\ 0 < framePos[cur]
      /\ framePos[cur] + bytesWritten < HeaderLen)
     =>
     (/\ framePos'[cur] = framePos[cur] + bytesWritten
      /\ frameSize'[cur] = 0
      /\ dispatched' = dispatched
      /\ \A i \in 1..FrameBufferCap :
           frameBuffer'[cur][i] =
             IF i > framePos[cur] /\ i <= framePos[cur] + bytesWritten
             THEN buf[cur][i - framePos[cur]]
             ELSE frameBuffer[cur][i])]_vars

\* C15: at a fresh frame boundary (framePos = 0, frameSize = 0) with the whole
\* frame in the rest of the chunk, the step dispatches the frameSize bytes of the
\* chunk from bufPos on, moves bufPos by frameSize and leaves the scratch buffer as
\* it was.
C15_ZeroCopyEffect ==
  [][(/\ pc = "loop"
      /\ bufPos < bytesWritten
      /\ framePos[cur] = 0
      /\ frameSize[cur] = 0
      /\ bufPos + HeaderLen <= bytesWritten
      /\ ReadInt32BE(buf[cur], bufPos + 3) + FrameOverhead >= FrameOverhead
      /\ bytesWritten - bufPos >= ReadInt32BE(buf[cur], bufPos + 3) + FrameOverhead)
     =>
     LET size == ReadInt32BE(buf[cur], bufPos + 3) + FrameOverhead
     IN  /\ dispatched'[cur] =
              Append(dispatched[cur], SubSeq(buf[cur], bufPos + 1, bufPos + size))
         /\ bufPos' = bufPos + size
         /\ frameBuffer' = frameBuffer
         /\ buf' = buf]_vars

\* C15 witness: the second frame of a chunk was dispatched from the chunk itself, at
\* an offset behind the first frame, after the scratch buffer had been written.
C15_Witness ==
  /\ lastOp = "zeroCopy"
  /\ Len(dispatched[cur]) = 2
  /\ bufPos = bytesWritten
  /\ bufPos > Len(dispatched[cur][2])
  /\ frameBuffer[cur][1] # Uninit

\* C16: a frame that arrived whole in one chunk (dispatched from the chunk) and the
\* same frame that arrived cut into several chunks (dispatched from the scratch
\* buffer) give parseFrames the same bytes and leave the same framePos and
\* frameSize behind.
C16_ZeroCopyEquivalence ==
  (pc = "idle" /\ fed[1] = Len(StreamBytes) /\ fed[2] = Len(StreamBytes)) =>
    /\ dispatched[1] = dispatched[2]
    /\ framePos[1] = framePos[2]
    /\ frameSize[1] = frameSize[2]

\* C17: every iteration of the loop of the read callback moves bufPos forward by at
\* least one byte, or ends the processing of the chunk (break, return) or fails; an
\* iteration whose copy moved no byte fails with 'Copied 0 bytes' and dispatches
\* nothing.
C17_IterationProgress ==
  [][(pc = "loop" /\ bufPos < bytesWritten) =>
       /\ bufPos' > bufPos \/ pc' # "loop"
       /\ lastOp' \in {"throwPartialHeader", "throwSplitHeader", "throwSlowPath"} =>
            (pc' = "thrown" /\ dispatched' = dispatched)]_vars

\* C18: over the valid streams, whose frames fit the scratch buffer, and every
\* chunking, no read callback ends in one of the three 'Copied 0 bytes' failures.
C18_NoZeroCopyFailure ==
  lastOp \notin {"throwPartialHeader", "throwSplitHeader", "throwSlowPath"}

\* C19: inside the read callback bufPos never passes bytesWritten, and the scratch
\* buffer and the decoded frameSize are made of bytes of the chunks only: no cell
\* of the read buffer that the socket did not write for this callback is read.
C19_OnlyReceivedBytes ==
  /\ [](pc = "loop" => bufPos <= bytesWritten)
  /\ [][pc = "loop" =>
          /\ \A i \in 1..FrameBufferCap :
               frameBuffer'[cur][i] # frameBuffer[cur][i] =>
                 /\ i > framePos[cur]
                 /\ bufPos + i - framePos[cur] <= bytesWritten
                 /\ frameBuffer'[cur][i] = buf[cur][bufPos + i - framePos[cur]]
          /\ buf' = buf]_vars

\* C20: framePos never passes the size of the scratch buffer; a frame whose
\* frameSize exceeds that size is dispatched only from the chunk that holds it
\* whole, and is then dispatched; when it comes in pieces the callback fails with
\* 'Copied 0 bytes' at the first byte that finds the scratch buffer full, and
\* dispatches nothing.
C20_ScratchNeverOverrun ==
  /\ [](\A k \in Sockets : framePos[k] <= FrameBufferCap)
  /\ [][\A k \in Sockets :
          (/\ dispatched'[k] # dispatched[k]
           /\ Len(dispatched'[k][Len(dispatched'[k])]) > FrameBufferCap)
          =>
          (/\ lastOp' = "zeroCopy"
           /\ bufPos' <= bytesWritten
           /\ dispatched'[k][Len(dispatched'[k])] = SubSeq(buf[k], bufPos + 1, bufPos'))]_vars
  /\ [][(/\ pc = "loop"
          /\ bufPos < bytesWritten
          /\ frameSize[cur] > FrameBufferCap)
         =>
         (/\ dispatched' = dispatched
          /\ framePos[cur] = FrameBufferCap =>
               (lastOp' = "throwSlowPath" /\ pc' = "thrown"))]_vars
  /\ [][(/\ pc = "loop"
          /\ bufPos < bytesWritten
          /\ framePos[cur] = 0
          /\ frameSize[cur] = 0
          /\ bufPos + HeaderLen <= bytesWritten
          /\ ReadInt32BE(buf[cur], bufPos + 3) + FrameOverhead > FrameBufferCap
          /\ bytesWritten - bufPos >= ReadInt32BE(buf[cur], bufPos + 3) + FrameOverhead)
         =>
         (/\ lastOp' = "zeroCopy"
          /\ Len(dispatched'[cur]) = Len(dispatched[cur]) + 1)]_vars

\* C20 witness: the pieces of a frame longer than the scratch buffer filled it, and
\* the next byte ended the callback with 'Copied 0 bytes', nothing dispatched.
C20_Witness ==
  /\ pc = "thrown"
  /\ lastOp = "throwSlowPath"
  /\ stream = <<BigFrame>>
  /\ frameSize[1] = Len(BigFrame)
  /\ framePos[1] = FrameBufferCap
  /\ dispatched[1] = <<>>

====
